---- MODULE Spec2Model ----
(***************************************************************************)
(* Byte Pair Encoding wrapper of MidiTok (src/miditok/bpe.py): the BPE     *)
(* class built by bpe(tokenizer), its learner (BPE.bpe), apply_bpe,        *)
(* decompose_bpe, apply_bpe_to_dataset and load_params.                    *)
(*                                                                         *)
(* Strings are sequences of one-character strings, so that the descriptor *)
(* of a BPE token ("BPE_4-2.0-1-2") is really formatted by the learner and *)
(* really parsed back by set_bpe_tokens_successions and decompose_bpe.     *)
(***************************************************************************)
EXTENDS Integers, Sequences, FiniteSets, TLC

\* ------------------------------------------------------------------ bounds
\* Largest number of merges a call of the learner is asked for.
MaxMerges == 2
\* Largest number of tracks in the token files given to the learner.
MaxTracks == 2
\* Largest total number of tokens in the token files given to the learner.
MaxCorpusLen == 5
\* Codec specification: longest single track learnt from, longest sequence
\* handed to apply_bpe.
CodecTrackLen == 4
MaxInputLen == 3
\* Largest number of tokens of a persisted vocabulary given to load_params.
MaxLoadLen == 3

\* Size of the vocabulary built by the wrapped tokenizer (super().__init__):
\* the primitive tokens 0 .. NumPrim - 1.
NumPrim == 4
\* The primitive tokens the token files are written with.
CorpusTokens == {0, 1, 2}
\* The primitive tokens of the codec specification's files and inputs.
CodecTokens == {0, 1}

\* ----------------------------------------------------------- Python strings
Digits == <<"0", "1", "2", "3", "4", "5", "6", "7", "8", "9">>

\* str(n) of a non-negative int
RECURSIVE str(_)
str(n) == IF n < 10 THEN <<Digits[n + 1]>>
          ELSE str(n \div 10) \o <<Digits[(n % 10) + 1]>>

DigitVal(c) == CHOOSE d \in 0..9 : Digits[d + 1] = c

\* int(s) of a string of decimal digits
RECURSIVE int(_)
int(s) == IF Len(s) = 1 THEN DigitVal(s[1])
          ELSE 10 * int(SubSeq(s, 1, Len(s) - 1)) + DigitVal(s[Len(s)])

\* sep.join(strs)
RECURSIVE join(_, _)
join(sep, strs) == IF strs = <<>> THEN <<>>
                   ELSE IF Len(strs) = 1 THEN strs[1]
                   ELSE strs[1] \o <<sep>> \o join(sep, Tail(strs))

\* s.split(sep), sep a single character
RECURSIVE split(_, _)
split(s, sep) ==
    IF \A k \in 1..Len(s) : s[k] # sep THEN <<s>>
    ELSE LET k == CHOOSE j \in 1..Len(s) :
                      s[j] = sep /\ \A h \in 1..(j - 1) : s[h] # sep
         IN  <<SubSeq(s, 1, k - 1)>> \o split(SubSeq(s, k + 1, Len(s)), sep)

\* map(str, l) and map(int, l)
MapStr(l) == [k \in 1..Len(l) |-> str(l[k])]
MapInt(l) == [k \in 1..Len(l) |-> int(l[k])]

BPE == <<"B", "P", "E">>
Pitch == <<"P", "i", "t", "c", "h">>

\* str(Event(type_, value)): f'{type}_{value}'
EventStr(type_, value) == type_ \o <<"_">> \o value

\* The descriptor of primitive token t in the wrapped tokenizer's vocabulary.
PrimEvent(t) == EventStr(Pitch, str(t))

\* ---------------------------------------------------------------- variables
VARIABLES
    token_to_event,       \* vocab._token_to_event : token -> descriptor
    event_to_token,       \* vocab._event_to_token : descriptor -> token
    token_types_indexes,  \* vocab._token_types_indexes : type -> list of tokens
    has_bpe,              \* self.has_bpe
    bpe_successions,      \* self.bpe_successions, an ordered dict: <<tok, list>>
    pc,                   \* "new", "learning", "learned", "raised", "loaded"
    vocab_size,           \* the vocab_size argument of the running bpe() call
    token_files,          \* the tracks of the token files under tokens_path
    samples,              \* the tracks loaded by bpe(), rewritten in place
    to_replace,           \* the pair chosen by the last learner iteration
    tokens,               \* the argument of the last apply_bpe call
    applied,              \* what that call returned
    reapplied,            \* apply_bpe of that result
    decomposed,           \* decompose_bpe of that result
    called,               \* the last codec method called
    dataset_out           \* the tracks saved by apply_bpe_to_dataset

vars == <<token_to_event, event_to_token, token_types_indexes, has_bpe,
          bpe_successions, pc, vocab_size, token_files, samples, to_replace,
          tokens, applied, reapplied, decomposed, called, dataset_out>>

vocabVars == <<token_to_event, event_to_token, token_types_indexes>>
codecVars == <<tokens, applied, reapplied, decomposed, called, dataset_out>>

\* --------------------------------------------------------------- Vocabulary
\* A vocabulary value: the three dictionaries of a Vocabulary object.
Vocab(t2e, e2t, idx) == [t2e |-> t2e, e2t |-> e2t, idx |-> idx]

\* event.split('_')[0]
TypeOf(event) == split(event, "_")[1]

\* list of the keys of t2e, ascending, whose descriptor has the given type
RECURSIVE TokensOfTypeFrom(_, _, _)
TokensOfTypeFrom(t2e, type_, todo) ==
    IF todo = {} THEN <<>>
    ELSE LET t == CHOOSE x \in todo : \A y \in todo : x <= y
             rest == TokensOfTypeFrom(t2e, type_, todo \ {t})
         IN  IF TypeOf(t2e[t]) = type_ THEN <<t>> \o rest ELSE rest

\* Vocabulary.update_token_types_indexes: the index recomputed from the mapping
update_token_types_indexes(t2e) ==
    LET types == {TypeOf(t2e[t]) : t \in DOMAIN t2e}
    IN  [ty \in types |-> TokensOfTypeFrom(t2e, ty, DOMAIN t2e)]

\* Vocabulary.tokens_of_type: the cached index, empty for an unknown type
tokens_of_type(idx, type_) == IF type_ \in DOMAIN idx THEN idx[type_] ELSE <<>>

\* len(vocab)
VocabLen(v) == Cardinality(DOMAIN v.t2e)

\* Vocabulary.add_event: the next unused id, both directions, the index kept
\* up to date. Raises on a descriptor that is already there.
AddEventRaises(v, event) == event \in DOMAIN v.e2t

add_event(v, event) ==
    LET new == VocabLen(v)
        ty == TypeOf(event)
    IN  Vocab([t \in DOMAIN v.t2e \cup {new} |->
                   IF t = new THEN event ELSE v.t2e[t]],
              [e \in DOMAIN v.e2t \cup {event} |->
                   IF e = event THEN new ELSE v.e2t[e]],
              [x \in DOMAIN v.idx \cup {ty} |->
                   IF x = ty THEN tokens_of_type(v.idx, ty) \o <<new>>
                   ELSE v.idx[x]])

\* The vocabulary the wrapped tokenizer builds: the primitive tokens.
BaseTokenToEvent == [t \in 0..(NumPrim - 1) |-> PrimEvent(t)]

BaseVocab ==
    Vocab(BaseTokenToEvent,
          [e \in {PrimEvent(t) : t \in 0..(NumPrim - 1)} |->
               CHOOSE t \in 0..(NumPrim - 1) : PrimEvent(t) = e],
          update_token_types_indexes(BaseTokenToEvent))

CurVocab == Vocab(token_to_event, event_to_token, token_types_indexes)

\* ------------------------------------------------------------------ learner
\* Lines 67-74 for one track: occurrences is an ordered dict, here the list of
\* its items [pair, count] in insertion order. i is the Python index.
RECURSIVE CountTrack(_, _, _)
CountTrack(occurrences, track, i) ==
    IF i < Len(track) - 1
    THEN LET pair == SubSeq(track, i + 1, i + 2)
             known == {k \in 1..Len(occurrences) : occurrences[k].pair = pair}
         IN  CountTrack(
                 IF known # {}
                 THEN [occurrences EXCEPT ![CHOOSE k \in known : TRUE].count = @ + 1]
                 ELSE Append(occurrences, [pair |-> pair, count |-> 1]),
                 track, i + 1)
    ELSE occurrences

\* Mutant of CountSamples: the tracks are counted as one sequence, the pair
\* at the end of a track and the start of the next included.
CountSamplesJoined(occurrences, smp, n) ==
    LET RECURSIVE J(_)
        J(k) == IF k > Len(smp) THEN <<>> ELSE smp[k] \o J(k + 1)
    IN  CountTrack(occurrences, J(n), 0)

\* Lines 67-74: the tracks n, n + 1, ... of the samples
RECURSIVE CountSamples(_, _, _)
CountSamples(occurrences, smp, n) ==
    IF n > Len(smp) THEN occurrences
    ELSE CountSamples(CountTrack(occurrences, smp[n], 0), smp, n + 1)

\* Mutant of MaxOccurrence: min in place of max.
MinOccurrence(occurrences) ==
    LET best == CHOOSE k \in 1..Len(occurrences) :
                    /\ \A h \in 1..Len(occurrences) :
                           occurrences[h].count >= occurrences[k].count
                    /\ \A h \in 1..(k - 1) :
                           occurrences[h].count > occurrences[k].count
    IN  occurrences[best].pair

\* Line 76: max(occurrences, key=occurrences.get), the first key in insertion
\* order whose count no other count exceeds
MaxOccurrence(occurrences) ==
    LET best == CHOOSE k \in 1..Len(occurrences) :
                    /\ \A h \in 1..Len(occurrences) :
                           occurrences[h].count <= occurrences[k].count
                    /\ \A h \in 1..(k - 1) :
                           occurrences[h].count < occurrences[k].count
    IN  occurrences[best].pair

\* Mutant of NonBpeTokens: a BPE token of the pair is kept as it is.
NonBpeTokensUnflattened(t2e, token) == <<token>>

\* Lines 79-83 for one token of to_replace
NonBpeTokens(t2e, token) ==
    IF split(t2e[token], "_")[1] = BPE
    THEN MapInt(split(split(split(t2e[token], "_")[2], ".")[2], "-"))
    ELSE <<token>>

\* Lines 77-83: to_replace_bis
RECURSIVE ToReplaceBis(_, _)
ToReplaceBis(t2e, pair) ==
    IF pair = <<>> THEN <<>>
    ELSE NonBpeTokens(t2e, Head(pair)) \o ToReplaceBis(t2e, Tail(pair))

\* Line 84: to_replace_str
ToReplaceStr(pair, bis) ==
    join("-", MapStr(pair)) \o <<".">> \o join("-", MapStr(bis))

\* Mutant of ReplaceInTrack: after a replacement the scan goes on behind the
\* token that followed the pair.
RECURSIVE ReplaceInTrackSkipping(_, _, _, _)
ReplaceInTrackSkipping(track, i, pair, new) ==
    IF i < Len(track) - 1
    THEN IF SubSeq(track, i + 1, i + 2) = pair
         THEN ReplaceInTrackSkipping(SubSeq(track, 1, i) \o <<new>>
                                         \o SubSeq(track, i + 3, Len(track)),
                                     i + 2, pair, new)
         ELSE ReplaceInTrackSkipping(track, i + 1, pair, new)
    ELSE track

\* Lines 88-93 for one track, from Python index i on
RECURSIVE ReplaceInTrack(_, _, _, _)
ReplaceInTrack(track, i, pair, new) ==
    IF i < Len(track) - 1
    THEN IF SubSeq(track, i + 1, i + 2) = pair
         THEN ReplaceInTrack(SubSeq(track, 1, i) \o <<new>>
                                 \o SubSeq(track, i + 3, Len(track)),
                             i + 1, pair, new)
         ELSE ReplaceInTrack(track, i + 1, pair, new)
    ELSE track

\* Lines 86-93: every track of the samples
ReplaceInSamples(smp, pair, new) ==
    [n \in 1..Len(smp) |-> ReplaceInTrack(smp[n], 0, pair, new)]

\* Mutant of LoopCondition: <= in place of <.
LoopConditionOffByOne(v, target) == VocabLen(v) <= target

\* Line 65: the condition of the learner's loop
LoopCondition(v, target) == VocabLen(v) < target

\* Lines 66-93: one iteration of the learner's loop. max() raises ValueError
\* on an empty occurrences dict, add_event on a descriptor that is there.
BpeIteration(v, smp) ==
    LET occurrences == CountSamples(<<>>, smp, 1)
        unchanged == [raised |-> TRUE, vocab |-> v, samples |-> smp,
                      to_replace |-> <<>>]
    IN  IF occurrences = <<>> THEN unchanged
        ELSE LET pair == MaxOccurrence(occurrences)
                 bis == ToReplaceBis(v.t2e, pair)
                 event == EventStr(BPE, ToReplaceStr(pair, bis))
             IN  IF AddEventRaises(v, event) THEN unchanged
                 ELSE LET v2 == add_event(v, event)
                      IN  [raised |-> FALSE, vocab |-> v2,
                           samples |-> ReplaceInSamples(smp, pair, v2.e2t[event]),
                           to_replace |-> pair]

\* Lines 112-116: set_bpe_tokens_successions, the items <<tok, succession>>
set_bpe_tokens_successions(v) ==
    LET toks == tokens_of_type(v.idx, BPE)
    IN  [k \in 1..Len(toks) |->
            <<toks[k],
              MapInt(split(split(split(v.t2e[toks[k]], "_")[2], ".")[1], "-"))>>]

\* Lines 106-109: the mean of the original lengths is 0 and is divided by
SumLen(smp) == LET RECURSIVE S(_)
                   S(n) == IF n = 0 THEN 0 ELSE Len(smp[n]) + S(n - 1)
               IN  S(Len(smp))

VariationRaises(files) == SumLen(files) = 0

\* -------------------------------------------------------------------- codec
\* Mutant of ApplyScan: < in place of <=, the last place is not looked at.
RECURSIVE ApplyScanShort(_, _, _, _)
ApplyScanShort(toks, i, tok, token_succession) ==
    IF i < Len(toks) - Len(token_succession)
    THEN IF SubSeq(toks, i + 1, i + Len(token_succession)) = token_succession
         THEN ApplyScanShort(SubSeq(toks, 1, i) \o <<tok>>
                                 \o SubSeq(toks, i + Len(token_succession) + 1,
                                           Len(toks)),
                             i + 1, tok, token_succession)
         ELSE ApplyScanShort(toks, i + 1, tok, token_succession)
    ELSE toks

\* Lines 132-138 for one BPE token, from Python index i on
RECURSIVE ApplyScan(_, _, _, _)
ApplyScan(toks, i, tok, token_succession) ==
    IF i <= Len(toks) - Len(token_succession)
    THEN IF SubSeq(toks, i + 1, i + Len(token_succession)) = token_succession
         THEN ApplyScan(SubSeq(toks, 1, i) \o <<tok>>
                            \o SubSeq(toks, i + Len(token_succession) + 1, Len(toks)),
                        i + 1, tok, token_succession)
         ELSE ApplyScan(toks, i + 1, tok, token_succession)
    ELSE toks

\* Lines 131-138: the BPE tokens k, k + 1, ... in the order of the dict
RECURSIVE ApplyPass(_, _, _)
ApplyPass(toks, successions, k) ==
    IF k > Len(successions) THEN toks
    ELSE ApplyPass(ApplyScan(toks, 0, successions[k][1], successions[k][2]),
                   successions, k + 1)

\* Lines 127-139: rounds until one leaves the length as it was
RECURSIVE ApplyRounds(_, _, _)
ApplyRounds(toks, successions, previous_len) ==
    IF previous_len # Len(toks)
    THEN ApplyRounds(ApplyPass(toks, successions, 1), successions, Len(toks))
    ELSE toks

\* Lines 118-139
apply_bpe(has, successions, toks) ==
    IF ~has THEN toks ELSE ApplyRounds(toks, successions, Len(toks) + 1)

\* Mutant of DecomposeFrom: the pair of the BPE token is inserted, not its
\* primitive tokens.
RECURSIVE DecomposeFromSuccession(_, _, _)
DecomposeFromSuccession(t2e, toks, i) ==
    IF i < Len(toks)
    THEN LET parts == split(t2e[toks[i + 1]], "_")
         IN  IF parts[1] = BPE
             THEN DecomposeFromSuccession(
                      t2e,
                      SubSeq(toks, 1, i)
                          \o MapInt(split(split(parts[2], ".")[1], "-"))
                          \o SubSeq(toks, i + 2, Len(toks)),
                      i + 1)
             ELSE DecomposeFromSuccession(t2e, toks, i + 1)
    ELSE toks

\* Lines 181-189, from Python index i on
RECURSIVE DecomposeFrom(_, _, _)
DecomposeFrom(t2e, toks, i) ==
    IF i < Len(toks)
    THEN LET parts == split(t2e[toks[i + 1]], "_")
         IN  IF parts[1] = BPE
             THEN DecomposeFrom(
                      t2e,
                      SubSeq(toks, 1, i)
                          \o MapInt(split(split(parts[2], ".")[2], "-"))
                          \o SubSeq(toks, i + 2, Len(toks)),
                      i + 1)
             ELSE DecomposeFrom(t2e, toks, i + 1)
    ELSE toks

\* Lines 175-189
decompose_bpe(t2e, toks) == DecomposeFrom(t2e, toks, 0)

\* ------------------------------------------------------------------- inputs
\* The sequences of at most n tokens of the set toks
SeqsUpTo(toks, n) == UNION {[1..m -> toks] : m \in 0..n}

\* The tracks a list of tokens is cut into at the positions cuts
Cut(flat, cuts) ==
    LET m == Len(cuts) + 1
        lo(j) == IF j = 1 THEN 0 ELSE cuts[j - 1]
        hi(j) == IF j = m THEN Len(flat) ELSE cuts[j]
    IN  [j \in 1..m |-> SubSeq(flat, lo(j) + 1, hi(j))]

NonDecreasing(cuts) == \A j \in 1..(Len(cuts) - 1) : cuts[j] <= cuts[j + 1]

\* The learner never compares the values of two tokens, only their positions
\* (the occurrences dict is read in insertion order), so the token files are
\* taken up to a renaming of the primitive tokens: a token is first used
\* after every smaller one.
FirstUseInOrder(flat) ==
    \A i \in 1..Len(flat) :
        flat[i] = 0 \/ \E j \in 1..(i - 1) : flat[j] = flat[i] - 1

\* The tokens of the token files, one track after the other: at most
\* MaxCorpusLen primitive tokens
Flats == {flat \in SeqsUpTo(CorpusTokens, MaxCorpusLen) : FirstUseInOrder(flat)}

\* The ways to cut them into 1 .. MaxTracks tracks
Cuts(flat) == {c \in SeqsUpTo(0..Len(flat), MaxTracks - 1) : NonDecreasing(c)}

\* The token files of the codec specification: one track
CodecCorpora == {<<track>> : track \in SeqsUpTo(CodecTokens, CodecTrackLen)}

\* The vocab_size arguments: the size of the base vocabulary plus 0 .. MaxMerges
VocabSizes == NumPrim..(NumPrim + MaxMerges)

MergedTokens(t2e) == {t \in DOMAIN t2e : TypeOf(t2e[t]) = BPE}

\* The sequences handed to apply_bpe: tokens of the vocabulary
Inputs ==
    SeqsUpTo((CodecTokens \cap DOMAIN token_to_event) \cup MergedTokens(token_to_event),
             MaxInputLen)

\* ------------------------------------------------------------------- actions
Init ==
    /\ token_to_event = BaseVocab.t2e
    /\ event_to_token = BaseVocab.e2t
    /\ token_types_indexes = BaseVocab.idx
    /\ has_bpe = FALSE                  \* line 22
    /\ bpe_successions = <<>>           \* line 24
    /\ pc = "new"
    /\ vocab_size = 0
    /\ token_files = <<>>
    /\ samples = <<>>
    /\ to_replace = <<>>
    /\ tokens = <<>>
    /\ applied = <<>>
    /\ reapplied = <<>>
    /\ decomposed = <<>>
    /\ called = "none"
    /\ dataset_out = <<>>

Idle == pc \in {"new", "learned", "raised", "loaded"}

\* Mutant of AssertionHolds: >= in place of >.
AssertionHoldsOrEqual(target, v) == target >= VocabLen(v)

\* Line 45: the assertion on vocab_size
AssertionHolds(target, v) == target > VocabLen(v)

\* bpe(), lines 45-61: the assertion, then the token files are loaded. The
\* call modelled is the first one of an instance built without params, on the
\* vocabulary of the wrapped tokenizer.
LearnStart(files, target) ==
    /\ pc = "new"
    /\ called = "none"
    /\ vocab_size' = target
    /\ IF AssertionHolds(target, CurVocab)
       THEN /\ pc' = "learning"
            /\ token_files' = files
            /\ samples' = files
       ELSE /\ pc' = "raised"
            /\ UNCHANGED <<token_files, samples>>
    /\ UNCHANGED <<vocabVars, has_bpe, bpe_successions, to_replace, codecVars>>

\* bpe(), lines 65-93: one iteration of the loop
LearnIteration ==
    /\ pc = "learning"
    /\ LoopCondition(CurVocab, vocab_size)
    /\ LET r == BpeIteration(CurVocab, samples)
       IN  /\ token_to_event' = r.vocab.t2e
           /\ event_to_token' = r.vocab.e2t
           /\ token_types_indexes' = r.vocab.idx
           /\ samples' = r.samples
           /\ to_replace' = IF r.raised THEN to_replace ELSE r.to_replace
           /\ pc' = IF r.raised THEN "raised" ELSE "learning"
    /\ UNCHANGED <<has_bpe, bpe_successions, vocab_size, token_files, codecVars>>

\* bpe(), lines 96-110: the loop is left
LearnFinish ==
    /\ pc = "learning"
    /\ ~LoopCondition(CurVocab, vocab_size)
    /\ has_bpe' = TRUE
    /\ bpe_successions' = set_bpe_tokens_successions(CurVocab)
    /\ token_types_indexes' = update_token_types_indexes(token_to_event)
    /\ pc' = IF VariationRaises(token_files) THEN "raised" ELSE "learned"
    /\ UNCHANGED <<token_to_event, event_to_token, vocab_size, token_files,
                   samples, to_replace, codecVars>>

\* load_params, lines 254-260: the vocabulary of the 'token_to_event' key, a
\* list of items <<token, event>> with the tokens as JSON writes them
LoadedVocab(value) ==
    LET last(match(_)) == CHOOSE k \in 1..Len(value) :
                              match(k) /\ \A h \in (k + 1)..Len(value) : ~match(h)
        t2e == [t \in {int(value[k][1]) : k \in 1..Len(value)} |->
                   value[last(LAMBDA k : int(value[k][1]) = t)][2]]
        e2t == [e \in {value[k][2] : k \in 1..Len(value)} |->
                   int(value[last(LAMBDA k : value[k][2] = e)][1])]
    IN  Vocab(t2e, e2t, update_token_types_indexes(t2e))

\* The descriptors found in a persisted vocabulary
EventPool == {PrimEvent(0), PrimEvent(1),
              EventStr(BPE, ToReplaceStr(<<0, 1>>, <<0, 1>>))}

\* The persisted 'token_to_event' values: tokens "0", "1", ... in order
PersistedMappings ==
    UNION {{[k \in 1..m |-> <<str(k - 1), events[k]>>] :
               events \in [1..m -> EventPool]} : m \in 0..MaxLoadLen}

\* load_params(params) called on the instance, lines 235-261, before any
\* bpe() call. bpe_successions is not touched: __init__ alone refreshes it.
LoadParams(value) ==
    /\ pc \in {"new", "loaded"}
    /\ LET v == LoadedVocab(value)
       IN  /\ token_to_event' = v.t2e
           /\ event_to_token' = v.e2t
           /\ token_types_indexes' = v.idx
           /\ has_bpe' = (Len(tokens_of_type(v.idx, BPE)) > 0)
    /\ pc' = "loaded"
    /\ UNCHANGED <<bpe_successions, vocab_size, token_files, samples,
                   to_replace, codecVars>>

\* apply_bpe_to_dataset(tokens_path, out_path), lines 141-154
ApplyBpeToDataset ==
    /\ Idle
    /\ has_bpe
    /\ dataset_out' = [n \in 1..Len(token_files) |->
                           apply_bpe(has_bpe, bpe_successions, token_files[n])]
    /\ called' = "apply_bpe_to_dataset"
    /\ UNCHANGED <<vocabVars, has_bpe, bpe_successions, pc, vocab_size,
                   token_files, samples, to_replace, tokens, applied, reapplied,
                   decomposed>>

\* apply_bpe(s), lines 118-139. What it returns depends on no earlier call of
\* the codec, so a behaviour calls it once, on any input.
ApplyBpe(s) ==
    /\ Idle
    /\ called = "none"
    /\ tokens' = s
    /\ applied' = apply_bpe(has_bpe, bpe_successions, s)
    /\ reapplied' = <<>>
    /\ decomposed' = <<>>
    /\ called' = "apply_bpe"
    /\ UNCHANGED <<vocabVars, has_bpe, bpe_successions, pc, vocab_size,
                   token_files, samples, to_replace, dataset_out>>

\* apply_bpe called on what apply_bpe returned
ApplyBpeAgain ==
    /\ Idle
    /\ called = "apply_bpe"
    /\ reapplied' = apply_bpe(has_bpe, bpe_successions, applied)
    /\ called' = "apply_bpe_again"
    /\ UNCHANGED <<vocabVars, has_bpe, bpe_successions, pc, vocab_size,
                   token_files, samples, to_replace, tokens, applied,
                   decomposed, dataset_out>>

\* decompose_bpe called on what apply_bpe returned, lines 175-189
DecomposeBpe ==
    /\ Idle
    /\ called = "apply_bpe"
    /\ decomposed' = decompose_bpe(token_to_event, applied)
    /\ called' = "decompose_bpe"
    /\ UNCHANGED <<vocabVars, has_bpe, bpe_successions, pc, vocab_size,
                   token_files, samples, to_replace, tokens, applied,
                   reapplied, dataset_out>>

Next ==
    \/ pc = "new" /\ \E flat \in Flats, target \in VocabSizes :
                         \E cuts \in Cuts(flat) : LearnStart(Cut(flat, cuts), target)
    \/ pc = "new" /\ \E target \in VocabSizes : LearnStart(<<>>, target)
    \/ \E value \in PersistedMappings : LoadParams(value)
    \/ LearnIteration
    \/ LearnFinish
    \/ ApplyBpeToDataset

Spec == Init /\ [][Next]_vars

NextCodec ==
    \/ pc = "new" /\ \E files \in CodecCorpora, target \in VocabSizes :
                         LearnStart(files, target)
    \/ LearnIteration
    \/ LearnFinish
    \/ called = "none" /\ \E s \in Inputs : ApplyBpe(s)
    \/ ApplyBpeAgain
    \/ DecomposeBpe

SpecCodec == Init /\ [][NextCodec]_vars

\* A step of the running bpe() call
LearnStep == LearnIteration \/ LearnFinish

\* bpe() is one call and runs on: weak fairness of LearnStep, with
\* ENABLED <<LearnStep>>_vars written as pc = "learning" (while the call runs,
\* its loop is left or an iteration merges or raises).
FairSpec == Spec /\ ([]<>(pc # "learning") \/ []<><<LearnStep>>_vars)

\* ------------------------------------------------------------- properties
\* What a BPE descriptor records: the pair merged and the primitive tokens
Succession(t2e, tok) ==
    MapInt(split(split(split(t2e[tok], "_")[2], ".")[1], "-"))

FullDecomposition(t2e, tok) ==
    MapInt(split(split(split(t2e[tok], "_")[2], ".")[2], "-"))

\* The primitive tokens a token stands for, by unfolding the merged pairs
RECURSIVE Flatten(_, _)
Flatten(t2e, tok) ==
    IF tok \in MergedTokens(t2e)
    THEN Flatten(t2e, Succession(t2e, tok)[1]) \o Flatten(t2e, Succession(t2e, tok)[2])
    ELSE <<tok>>

\* The number of places of the tracks where the pair stands
PairCount(pair, smp) ==
    LET RECURSIVE C(_)
        C(n) == IF n = 0 THEN 0
                ELSE C(n - 1) + Cardinality({i \in 1..(Len(smp[n]) - 1) :
                                                <<smp[n][i], smp[n][i + 1]>> = pair})
    IN  C(Len(smp))

\* The adjacent pairs of the tracks
AdjacentPairs(smp) ==
    UNION {{<<smp[n][i], smp[n][i + 1]>> : i \in 1..(Len(smp[n]) - 1)} :
           n \in 1..Len(smp)}

\* No pair of the track is the pair a merged token of the vocabulary stands for
NoSuccessionLeft(t2e, track) ==
    \A tok \in MergedTokens(t2e) : \A i \in 1..(Len(track) - 1) :
        <<track[i], track[i + 1]>> # Succession(t2e, tok)

IsPrimitiveSeq(t2e, toks) == \A i \in 1..Len(toks) : toks[i] \notin MergedTokens(t2e)

\* C1: decompose_bpe of apply_bpe of a sequence of primitive tokens is that
\* sequence, whatever the learner has put into the vocabulary.
RoundTrip ==
    (called = "decompose_bpe" /\ IsPrimitiveSeq(token_to_event, tokens))
        => decomposed = tokens

\* C1 witness: after two merges, a primitive sequence was shortened by
\* apply_bpe to a token merged from a merged token and restored.
RoundTripWitness ==
    /\ called = "decompose_bpe"
    /\ pc = "learned"
    /\ IsPrimitiveSeq(token_to_event, tokens)
    /\ Len(tokens) = 3
    /\ Len(applied) = 1
    /\ decomposed = tokens

\* C2, as stated: a call with vocab_size = size + k, k >= 1, ends with the
\* vocabulary at size + k.
LearnReachesTarget ==
    (pc \in {"learned", "raised"} /\ vocab_size > NumPrim)
        => VocabLen(CurVocab) = vocab_size

\* C2, amended: the call ends; it returns with the vocabulary at the target
\* size, or it raises, short of the target, on files with no adjacent pair
\* left.
LearnTerminates ==
    /\ (pc = "learning") ~> (pc \in {"learned", "raised"})
    /\ [](pc = "learned" => VocabLen(CurVocab) = vocab_size)
    /\ []((pc = "raised" /\ vocab_size > NumPrim)
            => (VocabLen(CurVocab) < vocab_size /\ AdjacentPairs(samples) = {}))

\* C2 witnesses: a call that returned after two merges.
LearnTerminatesWitness ==
    /\ pc = "learned"
    /\ vocab_size = NumPrim + 2
    /\ VocabLen(CurVocab) = NumPrim + 2

Track01012 == <<<<0, 1, 0, 1, 2>>>>
Bpe0101 == <<"B", "P", "E", "_", "0", "-", "1", ".", "0", "-", "1">>

ScenarioLearned ==
    /\ pc = "learned"
    /\ token_files = Track01012
    /\ vocab_size = 5

\* C3, as stated: tokens {0,1,2,3}, the track [0,1,0,1,2], vocab_size 5: the
\* pair (0,1) becomes token 4, "BPE_0-1.0-1", and the track is left as
\* [4,0,1,2].
ScenarioAsStated ==
    ScenarioLearned =>
        /\ to_replace = <<0, 1>>
        /\ token_to_event[4] = Bpe0101
        /\ samples = <<<<4, 0, 1, 2>>>>

\* C3, amended: the same, but both occurrences of (0,1) are replaced in the
\* one pass, and the track is left as [4,4,2].
ScenarioAmended ==
    ScenarioLearned =>
        /\ to_replace = <<0, 1>>
        /\ DOMAIN token_to_event = 0..4
        /\ token_to_event[4] = Bpe0101
        /\ Succession(token_to_event, 4) = <<0, 1>>
        /\ FullDecomposition(token_to_event, 4) = <<0, 1>>
        /\ samples = <<<<4, 4, 2>>>>

\* C3 witness: the scenario has run.
ScenarioWitness == ScenarioLearned /\ samples = <<<<4, 4, 2>>>>

DecompositionFlat ==
    (pc \in {"learning", "learned", "raised"}) =>
        \A tok \in MergedTokens(token_to_event) :
            /\ Len(Succession(token_to_event, tok)) = 2
            /\ IsPrimitiveSeq(token_to_event, FullDecomposition(token_to_event, tok))
            /\ FullDecomposition(token_to_event, tok) =
                   Flatten(token_to_event, Succession(token_to_event, tok)[1])
                       \o Flatten(token_to_event, Succession(token_to_event, tok)[2])

\* C5 witness: between two iterations, a token merged from two merged tokens.
DecompositionFlatWitness ==
    /\ pc = "learning"
    /\ \E tok \in MergedTokens(token_to_event) :
           /\ Succession(token_to_event, tok)[1] \in MergedTokens(token_to_event)
           /\ Succession(token_to_event, tok)[2] \in MergedTokens(token_to_event)
           /\ Len(FullDecomposition(token_to_event, tok)) = 4

HasBpeIffMerged == has_bpe <=> (MergedTokens(token_to_event) # {})

\* C8: the learner starts only with vocab_size above the size of the
\* vocabulary and raises when an iteration finds no pair; a step that raises
\* leaves the vocabulary and the samples as they were; and no pair that a
\* registered merged token stands for is left in the samples.
FailureAtomic ==
    /\ [][(pc = "new" /\ pc' = "learning") => vocab_size' > VocabLen(CurVocab)]_vars
    /\ [][(pc = "new" /\ pc' = "raised") => vocab_size' <= VocabLen(CurVocab)]_vars
    /\ [][(pc = "learning" /\ LoopCondition(CurVocab, vocab_size)
               /\ AdjacentPairs(samples) = {}) => pc' = "raised"]_vars
    /\ [][(pc' = "raised") => /\ token_to_event' = token_to_event
                              /\ event_to_token' = event_to_token
                              /\ samples' = samples]_vars
    /\ []((pc \in {"learning", "learned", "raised"}) =>
              \A n \in 1..Len(samples) : NoSuccessionLeft(token_to_event, samples[n]))

\* C8 witness: the learner raised after a merge it had made.
FailureAtomicWitness ==
    /\ pc = "raised"
    /\ MergedTokens(token_to_event) # {}
    /\ AdjacentPairs(samples) = {}
    /\ samples # token_files

\* C9, as stated: the two maps of the vocabulary are inverse to each other
\* in every state, after load_params too.
VocabularyBijective ==
    /\ DOMAIN event_to_token = {token_to_event[t] : t \in DOMAIN token_to_event}
    /\ \A t \in DOMAIN token_to_event : event_to_token[token_to_event[t]] = t

\* C10: an iteration that does not raise merges a pair that stands in a
\* track, no pair of the tracks standing there more often, and registers one
\* token for it, the next unused one.
PairSelection ==
    [][(pc = "learning" /\ pc' = "learning") =>
          /\ PairCount(to_replace', samples) >= 1
          /\ \A pair \in AdjacentPairs(samples) :
                 PairCount(pair, samples) <= PairCount(to_replace', samples)
          /\ DOMAIN token_to_event' = DOMAIN token_to_event \cup {VocabLen(CurVocab)}
          /\ VocabLen(CurVocab) \notin DOMAIN token_to_event
          /\ \A t \in DOMAIN token_to_event : token_to_event'[t] = token_to_event[t]
          /\ Succession(token_to_event', VocabLen(CurVocab)) = to_replace']_vars

\* C10 witness: a second iteration has chosen a pair with a merged token.
PairSelectionWitness ==
    /\ pc = "learning"
    /\ Len(token_files) = 2
    /\ Cardinality(MergedTokens(token_to_event)) = 2
    /\ \E i \in 1..2 : to_replace[i] \in MergedTokens(token_to_event)

====
